---- MODULE Spec2Model ----
(***************************************************************************)
(* rat (src/bin/rat.rs): concatenate the sources named on the command line *)
(* to standard output.  The model follows cli() and simple_cat() statement *)
(* by statement.  Data is kept as extents [t, o, n]: n bytes of the source *)
(* of token number t starting at offset o, so that the real buffer sizes   *)
(* (128 KiB, 64 KiB, 8 KiB) are used unscaled.                             *)
(***************************************************************************)
EXTENDS Integers, Sequences, FiniteSets, TLC

(* ------------------------------------------------------------------ *)
(* Program constants                                                   *)
(* ------------------------------------------------------------------ *)
PIPE_DEF_PAGES == 16
IO_BUFSIZE == 131072
NEWLINE_CH == 10
\* capacity of BufWriter::new (the "8192 buffers" of the comments in cli)
BUFWRITER_CAP == 8192

(* ------------------------------------------------------------------ *)
(* Bounds of the model: the environment the process is started in      *)
(* ------------------------------------------------------------------ *)
\* longest token list the caller passes
MaxArgs == 2
\* how many I/O irregularities (read error, write error, short write) one run meets
MaxFaults == 1
\* size in bytes of the regular file "a"
SizeA == 70000
\* size in bytes of the regular file "out" before the run (when it is not empty)
SizeOut == 5
\* bytes that the FIFO "p" delivers before end of input
SizeP == 3
\* bytes that the inherited input delivers when it is a pipe or a terminal
SizeStdin == 9000
\* size in bytes of the regular file examples/cat is fed on its standard input
SizeBig == 270000

\* the tokens a caller may pass
Tokens == {"-", "/dev/stdin", "/proc/self/fd/0", "a", "out", "nope", "noperm", "p", "dir"}
\* values of sysconf(_SC_PAGESIZE) for which min(i, o) is aligned
PageSizes == {4096}
\* with a page size that does not divide IO_BUFSIZE (256 KiB pages)
AnyPageSizes == PageSizes \cup {262144}
\* what fd 1 is: a regular file (the file "out"), a pipe, a terminal, or closed
StdoutKinds == {"file", "fifo", "tty", "none"}
\* what fd 0 is: a pipe, a pipe at end of input, a terminal, or the file "out"
StdinKinds == {"pipe", "empty", "tty", "out"}

VARIABLES
    strict,      \* cli's parameter `strict`; main passes false (rat.rs:266)
    argv,        \* env::args().skip(1)
    page_size,   \* get_pagesize()
    stdoutKind,  \* what fd 1 is
    stdoutSize0, \* size of the file behind fd 1 when the process starts
    stdinKind,   \* what fd 0 is
    pc,          \* position in main/cli/simple_cat
    args,        \* cli's `args`
    idx,         \* index in args of the token of the current iteration
    ok,          \* main's `ok`
    ibufsize,    \* cli's ibufsize
    obufsize,    \* cli's obufsize
    stdout_stat, \* cli's _stdout_stat
    pending,     \* bytes held in the BufWriter `stdout`
    sink,        \* bytes written to fd 1, one extent per write
    sinkErr,     \* writes to fd 1 fail (broken pipe, disk full)
    fd0,         \* "open" or "closed"
    stderr,      \* diagnostics, in order
    f,           \* the open source of this iteration: [path, pos, is_stdin]
    both_reg,    \* cli's _both_reg
    appending,   \* cli's _appending
    buffer,      \* simple_cat's buffer: <<>> or one extent
    bufsize,     \* simple_cat's bufsize
    bufch,       \* simple_cat's bufch
    writes,      \* calls of output.write in this simple_cat so far
    flushes,     \* calls of output.flush in this simple_cat so far
    last_read,   \* what the latest read of the copy loop returned: "none", "data", "eof", "err"
    faults,      \* irregularities met so far
    result,      \* what cli returned: "none", "Ok", or the error: "probe", "open", "read", "write"
    exit         \* process exit status, -1 while running

envVars == <<strict, argv, page_size, stdoutKind, stdoutSize0, stdinKind>>
cliVars == <<args, idx, ok, ibufsize, obufsize, stdout_stat, both_reg, appending>>
ioVars == <<pending, sink, sinkErr, fd0, stderr, f, faults>>
catVars == <<buffer, bufsize, bufch, writes, flushes, last_read>>
vars == <<envVars, cliVars, ioVars, catVars, pc, result, exit>>

(* ------------------------------------------------------------------ *)
(* Helpers                                                             *)
(* ------------------------------------------------------------------ *)
Min(a, b) == IF a <= b THEN a ELSE b

RECURSIVE SumLen(_)
SumLen(s) == IF s = <<>> THEN 0 ELSE Head(s).n + SumLen(Tail(s))

RECURSIVE SeqsUpTo(_, _)
SeqsUpTo(S, n) ==
    IF n = 0 THEN {<<>>}
    ELSE LET shorter == SeqsUpTo(S, n - 1)
         IN  shorter \cup {Append(s, x) : s \in {t \in shorter : Len(t) = n - 1}, x \in S}

NoFile == [path |-> "", pos |-> 0, is_stdin |-> FALSE]
NoStat == [ok |-> FALSE, kind |-> "none", dev |-> 0, ino |-> 0, size |-> 0]

Ext(t, o, n) == [t |-> t, o |-> o, n |-> n]

(* ------------------------------------------------------------------ *)
(* The file system and the inherited descriptors                       *)
(* ------------------------------------------------------------------ *)
\* size of the file "out" as it was when the process started
OutSizeAtStart == IF stdoutKind = "file" THEN stdoutSize0 ELSE SizeOut

\* size of the file "out" now: it grows with every byte written to fd 1 when fd 1 is that file
OutSize == IF stdoutKind = "file" THEN stdoutSize0 + SumLen(sink) ELSE SizeOut

\* fs::metadata(path): follows symbolic links, fails for what does not exist
Stat(path) ==
    CASE path = "a"      -> [ok |-> TRUE, kind |-> "file", dev |-> 1, ino |-> 1, size |-> SizeA]
      [] path = "out"    -> [ok |-> TRUE, kind |-> "file", dev |-> 1, ino |-> 2, size |-> OutSize]
      [] path = "noperm" -> [ok |-> TRUE, kind |-> "file", dev |-> 1, ino |-> 3, size |-> SizeOut]
      [] path = "p"      -> [ok |-> TRUE, kind |-> "fifo", dev |-> 1, ino |-> 4, size |-> 0]
      [] path = "dir"    -> [ok |-> TRUE, kind |-> "dir", dev |-> 1, ino |-> 8, size |-> 4096]
      [] path = "/dev/stdin" ->
            IF fd0 = "closed" THEN NoStat
            ELSE CASE stdinKind = "out" -> [ok |-> TRUE, kind |-> "file", dev |-> 1, ino |-> 2, size |-> OutSize]
                   [] stdinKind = "tty" -> [ok |-> TRUE, kind |-> "chr", dev |-> 2, ino |-> 6, size |-> 0]
                   [] OTHER             -> [ok |-> TRUE, kind |-> "fifo", dev |-> 3, ino |-> 5, size |-> 0]
      [] path = "/dev/stdout" ->
            CASE stdoutKind = "file" -> [ok |-> TRUE, kind |-> "file", dev |-> 1, ino |-> 2, size |-> OutSize]
              [] stdoutKind = "fifo" -> [ok |-> TRUE, kind |-> "fifo", dev |-> 3, ino |-> 7, size |-> 0]
              [] stdoutKind = "tty"  -> [ok |-> TRUE, kind |-> "chr", dev |-> 2, ino |-> 6, size |-> 0]
              [] OTHER               -> NoStat
      [] OTHER -> NoStat

\* File::open(path): "Ok", or the kind of the error; a directory opens, its reads fail
OpenResult(path) ==
    CASE path \in {"a", "out", "p", "dir"} -> "Ok"
      [] path = "noperm"            -> "PermissionDenied"
      [] OTHER                      -> "NotFound"

\* bytes a handle delivers before end of input
SrcSize(h) ==
    IF h.is_stdin
    THEN CASE stdinKind = "out"   -> OutSize
           [] stdinKind = "empty" -> 0
           [] OTHER               -> SizeStdin
    ELSE CASE h.path = "a"   -> SizeA
           [] h.path = "out" -> OutSize
           [] h.path = "p"   -> SizeP
           [] OTHER          -> 0

\* offsets that hold the byte 0x0A, in every source
NewlineOffsets == {1, 4}

\* isatty(STDIN_FD), isatty(STDOUT_FD)
IsattyStdin == fd0 = "open" /\ stdinKind = "tty"
IsattyStdout == stdoutKind = "tty"

(* ------------------------------------------------------------------ *)
(* Pure parts of cli and simple_cat                                    *)
(* ------------------------------------------------------------------ *)
\* rat.rs:178  the tokens that name the inherited input
IsStdinToken(tok) == tok = "-" \/ tok = "/dev/stdin" \/ tok = "/proc/self/fd/0"

\* rat.rs:178-182  the path the iteration uses for a token
FileOf(tok) == IF IsStdinToken(tok) THEN "/dev/stdin" ELSE tok

\* nothing is pushed for an empty list
ArgsAsGiven(given) == given

\* rat.rs:170-172  the list cli iterates over
ArgsOf(given) == IF Len(given) = 0 THEN <<"/dev/stdin">> ELSE given

\* the test without its last conjunct, st_size() != 0
SameFileAnySize(file_stat, out_stat) ==
    /\ file_stat.kind = "file"
    /\ out_stat.kind = "file"
    /\ file_stat.dev = out_stat.dev
    /\ file_stat.ino = out_stat.ino

\* rat.rs:188-192  input file is output file
SameFile(file_stat, out_stat) ==
    /\ file_stat.kind = "file"
    /\ out_stat.kind = "file"
    /\ file_stat.dev = out_stat.dev
    /\ file_stat.ino = out_stat.ino
    /\ file_stat.size # 0

\* rat.rs:187  the guard is consulted only when fs::metadata succeeded
Refused(file_stat, out_stat) == file_stat.ok /\ SameFile(file_stat, out_stat)

\* rat.rs:203-210  the name the refusal is reported under
Compat(is_stdin, file) == IF is_stdin THEN "-" ELSE file

\* rat.rs:252  the diagnostic of a failed open, whatever the error
OpenDiag(file, err) == [name |-> file, msg |-> "No such file or directory"]

\* rat.rs:211
RefuseDiag(is_stdin, file) == [name |-> Compat(is_stdin, file), msg |-> "input file is output file"]

\* io::copy whenever both are regular, appending or not
UseIoCopyAlways(both, app) == both

\* rat.rs:236  if _both_reg && !_appending
UseIoCopy(both, app) == both /\ ~app

\* the closure `write` without its flush
NoFlushAfterWrite(n) == n

\* rat.rs:107  output.flush()? after output.write: one more call of flush
FlushAfterWrite(n) == n + 1

\* rat.rs:163-165 and 214-216  buffer size of a FIFO side
PipeSize == PIPE_DEF_PAGES * page_size

\* rat.rs:142-152  the closure minbufsize; it panics when Aligned is false
minbufsize(i, o) == Min(i, o)

\* the test of rat.rs:144 left out
AlignedUnchecked(i, o) == TRUE

\* rat.rs:144  _min % page_size != 0 is the panic
Aligned(i, o) == Min(i, o) % page_size = 0

\* the read that never looks for the delimiter
ReadLenNoDelim(size, pos, limit, ch) ==
    Min(limit, IF size > pos THEN size - pos ELSE 0)

\* rat.rs:92-100  length of what one call of the closure `read` puts in the buffer
ReadLen(size, pos, limit, ch) ==
    LET avail == IF size > pos THEN size - pos ELSE 0
        m     == Min(limit, avail)
        nl    == {q \in NewlineOffsets : pos <= q /\ q < pos + m}
    IN  IF ch > 0 /\ nl # {}
        THEN (CHOOSE q \in nl : \A r \in nl : q <= r) - pos + 1
        ELSE m

\* the status that does not look at the flag
ExitCodeZero(flag) == 0

\* rat.rs:267-270  main's exit status
ExitCode(flag) == IF flag THEN 0 ELSE 1

(* ------------------------------------------------------------------ *)
(* Initial state: the process as the caller starts it                  *)
(* ------------------------------------------------------------------ *)
\* strict ranges over both values of cli's parameter, so that the branch at rat.rs:253 is
\* modelled although main itself only ever passes false
InitWith(pages) ==
    /\ strict \in BOOLEAN
    /\ argv \in SeqsUpTo(Tokens, MaxArgs)
    /\ page_size \in pages
    /\ stdoutKind \in StdoutKinds
    /\ stdoutSize0 \in (IF stdoutKind = "file" THEN {0, SizeOut} ELSE {0})
    /\ stdinKind \in StdinKinds
    /\ pc = "main"
    /\ args = <<>>
    /\ idx = 0
    /\ ok = TRUE
    /\ ibufsize = IO_BUFSIZE
    /\ obufsize = IO_BUFSIZE
    /\ stdout_stat = NoStat
    /\ pending = <<>>
    /\ sink = <<>>
    /\ sinkErr = FALSE
    /\ fd0 = "open"
    /\ stderr = <<>>
    /\ f = NoFile
    /\ both_reg = FALSE
    /\ appending = FALSE
    /\ buffer = <<>>
    /\ bufsize = 0
    /\ bufch = 0
    /\ writes = 0
    /\ flushes = 0
    /\ last_read = "none"
    /\ faults = 0
    /\ result = "none"
    /\ exit = -1

Init == InitWith(PageSizes)

\* the same process on a machine whose page size may not divide IO_BUFSIZE
InitAnyPage == InitWith(AnyPageSizes)

(* ------------------------------------------------------------------ *)
(* cli: start                                                          *)
(* ------------------------------------------------------------------ *)
\* rat.rs:162  fs::metadata("/dev/stdout")? fails: cli returns the error
ProbeSinkFails ==
    /\ pc = "main"
    /\ ~Stat("/dev/stdout").ok
    /\ result' = "probe"
    /\ pc' = "ret"
    /\ UNCHANGED <<envVars, cliVars, ioVars, catVars, exit>>

\* rat.rs:130-172  the sink is probed, obufsize chosen, the token list completed
CliStart ==
    /\ pc = "main"
    /\ Stat("/dev/stdout").ok
    /\ stdout_stat' = Stat("/dev/stdout")
    /\ obufsize' = IF Stat("/dev/stdout").kind = "fifo" THEN PipeSize ELSE IO_BUFSIZE
    /\ args' = ArgsOf(argv)
    /\ idx' = 1
    /\ pc' = "loop"
    /\ UNCHANGED <<envVars, ok, ibufsize, both_reg, appending, ioVars, catVars, result, exit>>

(* ------------------------------------------------------------------ *)
(* cli: one iteration of `for mut file in args`, up to the open        *)
(* ------------------------------------------------------------------ *)
\* the token of this iteration and what lines 176-187 derive from it
CurTok == args[idx]
CurIsStdin == IsStdinToken(CurTok)
CurFile == FileOf(CurTok)
CurStat == Stat(CurFile)
\* rat.rs:225-230  _open_file: the inherited input is never opened, only wrapped
CurOpen == IF CurIsStdin THEN "Ok" ELSE OpenResult(CurFile)

InLoop == pc = "loop" /\ idx <= Len(args)

\* rat.rs:214-220  what an iteration that is not refused records before it opens the source
NoteStat ==
    /\ ibufsize' = IF CurStat.ok /\ CurStat.kind = "fifo" THEN PipeSize ELSE ibufsize
    /\ both_reg' = (CurStat.ok /\ CurStat.kind = "file" /\ stdout_stat.kind = "file")
    /\ appending' = (CurStat.ok /\ stdout_stat.size > 0)

\* rat.rs:187-213  the source is the nonempty output file: report, next token
Refuse ==
    /\ InLoop
    /\ Refused(CurStat, stdout_stat)
    /\ stderr' = Append(stderr, RefuseDiag(CurIsStdin, CurFile))
    /\ idx' = idx + 1
    /\ both_reg' = FALSE
    /\ appending' = FALSE
    /\ UNCHANGED <<envVars, args, ok, ibufsize, obufsize, stdout_stat, pending, sink,
                   sinkErr, fd0, f, faults, catVars, pc, result, exit>>

\* |= written for &=
OrAssign(flag, v) == flag \/ v

\* rat.rs:256  *ok &= false
AndAssign(flag, v) == flag /\ v

\* rat.rs:250-257  the open fails, not strict: report, clear ok, next token
OpenFails ==
    /\ InLoop
    /\ ~Refused(CurStat, stdout_stat)
    /\ CurOpen # "Ok"
    /\ ~strict
    /\ NoteStat
    /\ stderr' = Append(stderr, OpenDiag(CurFile, CurOpen))
    /\ ok' = AndAssign(ok, FALSE)
    /\ idx' = idx + 1
    /\ UNCHANGED <<envVars, args, obufsize, stdout_stat, pending, sink, sinkErr, fd0, f,
                   faults, catVars, pc, result, exit>>

\* rat.rs:250-255  the open fails, strict: report, return the error
OpenFailsStrict ==
    /\ InLoop
    /\ ~Refused(CurStat, stdout_stat)
    /\ CurOpen # "Ok"
    /\ strict
    /\ NoteStat
    /\ stderr' = Append(stderr, OpenDiag(CurFile, CurOpen))
    /\ result' = "open"
    /\ pc' = "ret"
    /\ UNCHANGED <<envVars, args, idx, ok, obufsize, stdout_stat, pending, sink, sinkErr,
                   fd0, f, faults, catVars, exit>>

\* rat.rs:232-236  the open succeeds: io::copy when both are regular and not appending
OpenOk ==
    /\ InLoop
    /\ ~Refused(CurStat, stdout_stat)
    /\ CurOpen = "Ok"
    /\ NoteStat
    /\ f' = [path |-> CurFile, pos |-> 0, is_stdin |-> CurIsStdin]
    /\ pc' = IF UseIoCopy(both_reg', appending') THEN "iocopy" ELSE "cat"
    /\ UNCHANGED <<envVars, args, idx, ok, obufsize, stdout_stat, pending, sink, sinkErr,
                   fd0, stderr, faults, catVars, result, exit>>

\* rat.rs:259-260  no token is left: Ok(())
LoopEnd ==
    /\ pc = "loop"
    /\ idx > Len(args)
    /\ result' = "Ok"
    /\ pc' = "ret"
    /\ UNCHANGED <<envVars, cliVars, ioVars, catVars, exit>>

(* ------------------------------------------------------------------ *)
(* The sink: BufWriter<File> over fd 1                                 *)
(* ------------------------------------------------------------------ *)
\* the first k bytes of a sequence of extents
RECURSIVE TakeBytes(_, _)
TakeBytes(s, k) ==
    IF k <= 0 \/ s = <<>> THEN <<>>
    ELSE IF Head(s).n <= k
         THEN <<Head(s)>> \o TakeBytes(Tail(s), k - Head(s).n)
         ELSE <<Ext(Head(s).t, Head(s).o, k)>>

\* BufWriter::write(buf) hands buf to the descriptor itself when it does not fit the buffer
Direct(buf) == SumLen(buf) >= BUFWRITER_CAP

\* fd 1 after the held bytes and then the first k bytes of buf were written to it
Emit(snk, pend, buf, k) == snk \o pend \o TakeBytes(buf, k)

\* what a write(2) of n bytes may accept when it accepts less than n
ShortCounts(n) == {k \in {1, n \div 2} : 0 < k /\ k < n}

\* dropping a File closes its descriptor: fd 0 when the File wraps the inherited input
DropFile ==
    /\ fd0' = IF f.is_stdin THEN "closed" ELSE fd0
    /\ f' = NoFile

(* ------------------------------------------------------------------ *)
(* cli: io::copy                                                       *)
(* ------------------------------------------------------------------ *)
\* bytes the open source still holds
Remaining == IF SrcSize(f) > f.pos THEN SrcSize(f) - f.pos ELSE 0

\* rat.rs:239-241  io::copy returns Ok: held bytes are flushed, then the source is
\* transferred to the descriptor; continue with the next token
IoCopyOk ==
    /\ pc = "iocopy"
    /\ ~sinkErr
    /\ sink' = Emit(sink, pending, <<Ext(idx, f.pos, Remaining)>>, Remaining)
    /\ pending' = <<>>
    /\ DropFile
    /\ idx' = idx + 1
    /\ pc' = "loop"
    /\ UNCHANGED <<envVars, args, ok, ibufsize, obufsize, stdout_stat, both_reg, appending,
                   sinkErr, stderr, faults, catVars, result, exit>>

\* rat.rs:239-243  io::copy returns Err after k bytes, whatever the error: the `if let`
\* does not match and simple_cat goes on with the same handles
IoCopyErr ==
    /\ pc = "iocopy"
    /\ ~sinkErr
    /\ faults < MaxFaults
    /\ \E cause \in {"read", "write"}, k \in {0, Remaining \div 2} :
          /\ cause = "write" => Remaining > 0
          /\ sink' = Emit(sink, pending, <<Ext(idx, f.pos, Remaining)>>, k)
          /\ f' = [f EXCEPT !.pos = @ + k]
          /\ sinkErr' = (cause = "write")
    /\ pending' = <<>>
    /\ faults' = faults + 1
    /\ pc' = "cat"
    /\ UNCHANGED <<envVars, cliVars, fd0, stderr, catVars, result, exit>>

(* ------------------------------------------------------------------ *)
(* simple_cat                                                          *)
(* ------------------------------------------------------------------ *)
\* rat.rs:243-248 and 85-115  arguments are evaluated, the locals set up
SimpleCatStart ==
    /\ pc = "cat"
    /\ Aligned(ibufsize, obufsize)
    /\ bufsize' = minbufsize(ibufsize, obufsize)
    /\ bufch' = IF (f.is_stdin /\ IsattyStdin) \/ IsattyStdout THEN NEWLINE_CH ELSE 0
    /\ buffer' = <<>>
    /\ writes' = 0
    /\ flushes' = 0
    /\ last_read' = "none"
    /\ pc' = "read"
    /\ UNCHANGED <<envVars, cliVars, ioVars, result, exit>>

\* rat.rs:144-150 and 246  minbufsize panics while the arguments of simple_cat are
\* evaluated: the stack unwinds (the BufWriter is dropped, which writes what it holds, and
\* so is the source) and the process ends with the status of a panic, 101
PanicUnaligned ==
    /\ pc = "cat"
    /\ ~Aligned(ibufsize, obufsize)
    /\ sink' = IF sinkErr THEN sink ELSE Emit(sink, pending, <<>>, 0)
    /\ pending' = <<>>
    /\ DropFile
    /\ exit' = 101
    /\ pc' = "panicked"
    /\ UNCHANGED <<envVars, cliVars, sinkErr, stderr, faults, catVars, result>>

\* every read fails: a File made from descriptor 0 after descriptor 0 was closed
\* (EBADF), a directory (EISDIR)
BadFd == (f.is_stdin /\ fd0 = "closed") \/ (~f.is_stdin /\ f.path = "dir")

\* the buffer is left as it is
NotCleared(buf) == buf

\* rat.rs:108  buffer.clear()
Cleared(buf) == <<>>

\* rat.rs:117,121  Ok(n), n > 0: the bytes are appended to the buffer
ReadData ==
    /\ pc = "read"
    /\ ~BadFd
    /\ ReadLen(SrcSize(f), f.pos, bufsize, bufch) > 0
    /\ buffer' = Append(buffer, Ext(idx, f.pos, ReadLen(SrcSize(f), f.pos, bufsize, bufch)))
    /\ f' = [f EXCEPT !.pos = @ + ReadLen(SrcSize(f), f.pos, bufsize, bufch)]
    /\ last_read' = "data"
    /\ pc' = "write"
    /\ UNCHANGED <<envVars, cliVars, pending, sink, sinkErr, fd0, stderr, faults,
                   bufsize, bufch, writes, flushes, result, exit>>

\* rat.rs:119,127  Ok(0): break, output.flush(), Ok(()); cli goes to the next token
ReadEof ==
    /\ pc = "read"
    /\ ~BadFd
    /\ ReadLen(SrcSize(f), f.pos, bufsize, bufch) = 0
    /\ pending # <<>> => ~sinkErr
    /\ sink' = Emit(sink, pending, <<>>, 0)
    /\ pending' = <<>>
    /\ buffer' = <<>>
    /\ flushes' = flushes + 1
    /\ last_read' = "eof"
    /\ DropFile
    /\ idx' = idx + 1
    /\ pc' = "loop"
    /\ UNCHANGED <<envVars, args, ok, ibufsize, obufsize, stdout_stat, both_reg, appending,
                   sinkErr, stderr, faults, bufsize, bufch, writes, result, exit>>

\* rat.rs:123 and 248  Err(e): simple_cat returns it and `?` makes cli return it
ReadErr ==
    /\ pc = "read"
    /\ BadFd \/ faults < MaxFaults
    /\ faults' = IF BadFd THEN faults ELSE faults + 1
    /\ buffer' = <<>>
    /\ DropFile
    /\ last_read' = "err"
    /\ result' = "read"
    /\ pc' = "ret"
    /\ UNCHANGED <<envVars, cliVars, pending, sink, sinkErr, stderr, bufsize, bufch,
                   writes, flushes, exit>>

\* rat.rs:106-109  output.write(buffer)?; output.flush()?; buffer.clear(): all accepted
WriteAll ==
    /\ pc = "write"
    /\ ~sinkErr
    /\ sink' = Emit(sink, pending, buffer, SumLen(buffer))
    /\ pending' = <<>>
    /\ buffer' = Cleared(buffer)
    /\ writes' = writes + 1
    /\ flushes' = FlushAfterWrite(flushes)
    /\ pc' = "read"
    /\ UNCHANGED <<envVars, cliVars, sinkErr, fd0, stderr, f, faults, bufsize, bufch,
                   last_read, result, exit>>

\* rat.rs:106-109  the one write(2) behind output.write accepts k < n bytes; write
\* returns Ok(k), the count is not looked at, and the buffer is cleared
WriteShort ==
    /\ pc = "write"
    /\ ~sinkErr
    /\ Direct(buffer)
    /\ faults < MaxFaults
    /\ \E k \in ShortCounts(SumLen(buffer)) : sink' = Emit(sink, pending, buffer, k)
    /\ pending' = <<>>
    /\ buffer' = Cleared(buffer)
    /\ faults' = faults + 1
    /\ writes' = writes + 1
    /\ flushes' = FlushAfterWrite(flushes)
    /\ pc' = "read"
    /\ UNCHANGED <<envVars, cliVars, sinkErr, fd0, stderr, f, bufsize, bufch, last_read,
                   result, exit>>

\* rat.rs:106-107 and 248  the write or the flush fails: `?` returns the error from
\* simple_cat and from cli; bytes the BufWriter took stay in it (a buffer the BufWriter
\* took is refused by the flush, a larger one by the write itself)
WriteErr ==
    /\ pc = "write"
    /\ sinkErr \/ faults < MaxFaults
    /\ sinkErr' = TRUE
    /\ faults' = IF sinkErr THEN faults ELSE faults + 1
    /\ pending' = IF Direct(buffer) THEN pending ELSE pending \o buffer
    /\ buffer' = <<>>
    /\ DropFile
    /\ writes' = writes + 1
    /\ flushes' = IF Direct(buffer) THEN flushes ELSE FlushAfterWrite(flushes)
    /\ result' = "write"
    /\ pc' = "ret"
    /\ UNCHANGED <<envVars, cliVars, sink, stderr, bufsize, bufch, last_read, exit>>

(* ------------------------------------------------------------------ *)
(* main                                                                *)
(* ------------------------------------------------------------------ *)
\* rat.rs:263-271  cli has returned (its BufWriter is dropped, which writes the held
\* bytes if it can); `let _ =` discards the result; the status comes from ok alone
MainExit ==
    /\ pc = "ret"
    /\ sink' = IF sinkErr THEN sink ELSE Emit(sink, pending, <<>>, 0)
    /\ pending' = <<>>
    /\ exit' = ExitCode(ok)
    /\ pc' = "done"
    /\ UNCHANGED <<envVars, cliVars, sinkErr, fd0, stderr, f, faults, catVars, result>>

Next ==
    \/ ProbeSinkFails
    \/ CliStart
    \/ Refuse
    \/ OpenFails
    \/ OpenFailsStrict
    \/ OpenOk
    \/ LoopEnd
    \/ IoCopyOk
    \/ IoCopyErr
    \/ SimpleCatStart
    \/ ReadData
    \/ ReadEof
    \/ ReadErr
    \/ WriteAll
    \/ WriteShort
    \/ WriteErr
    \/ MainExit

Spec == Init /\ [][Next]_vars

\* the program on any page size: the panic of minbufsize can happen
NextAnyPage == Next \/ PanicUnaligned

SpecAnyPage == InitAnyPage /\ [][NextAnyPage]_vars

(* ------------------------------------------------------------------ *)
(* examples/cat.rs: standard input to standard output                  *)
(* ------------------------------------------------------------------ *)
\* what fd 0 of the example is: a pipe, a pipe at end of input, a regular file, a directory
ExStdinKinds == {"pipe", "empty", "file", "dir"}
\* what fd 1 of the example is
ExStdoutKinds == {"file", "fifo", "tty"}

\* bytes the example's standard input delivers before end of input
ExSrcSize ==
    CASE stdinKind = "pipe" -> SizeStdin
      [] stdinKind = "file" -> SizeBig
      [] OTHER              -> 0

\* cat.rs:78  what handle.take(IO_BUFSIZE).read_to_end(&mut buffer) appends
ExReadLen == Min(IO_BUFSIZE, IF ExSrcSize > f.pos THEN ExSrcSize - f.pos ELSE 0)

\* every read of a directory fails (EISDIR)
ExBadFd == stdinKind = "dir"

\* the example as the caller starts it; it takes no arguments
InitCat ==
    /\ strict = FALSE
    /\ argv = <<>>
    /\ page_size \in PageSizes
    /\ stdoutKind \in ExStdoutKinds
    /\ stdoutSize0 \in (IF stdoutKind = "file" THEN {0, SizeOut} ELSE {0})
    /\ stdinKind \in ExStdinKinds
    /\ pc = "ex_main"
    /\ args = <<>>
    /\ idx = 1
    /\ ok = TRUE
    /\ ibufsize = IO_BUFSIZE
    /\ obufsize = IO_BUFSIZE
    /\ stdout_stat = NoStat
    /\ pending = <<>>
    /\ sink = <<>>
    /\ sinkErr = FALSE
    /\ fd0 = "open"
    /\ stderr = <<>>
    /\ f = NoFile
    /\ both_reg = FALSE
    /\ appending = FALSE
    /\ buffer = <<>>
    /\ bufsize = 0
    /\ bufch = 0
    /\ writes = 0
    /\ flushes = 0
    /\ last_read = "none"
    /\ faults = 0
    /\ result = "none"
    /\ exit = -1

\* cat.rs:89-98 and 67-73  main locks stdin, wraps fd 1, calls simple_cat; the buffer
\* is allocated and cleared
ExMain ==
    /\ pc = "ex_main"
    /\ f' = [path |-> "/dev/stdin", pos |-> 0, is_stdin |-> TRUE]
    /\ buffer' = <<>>
    /\ bufsize' = IO_BUFSIZE
    /\ pc' = "ex_read"
    /\ UNCHANGED <<envVars, cliVars, pending, sink, sinkErr, fd0, stderr, faults, bufch,
                   writes, flushes, last_read, result, exit>>

\* cat.rs:78,81  Ok(n), n > 0
ExReadData ==
    /\ pc = "ex_read"
    /\ ~ExBadFd
    /\ ExReadLen > 0
    /\ buffer' = Append(buffer, Ext(idx, f.pos, ExReadLen))
    /\ f' = [f EXCEPT !.pos = @ + ExReadLen]
    /\ last_read' = "data"
    /\ pc' = "ex_write"
    /\ UNCHANGED <<envVars, cliVars, pending, sink, sinkErr, fd0, stderr, faults,
                   bufsize, bufch, writes, flushes, result, exit>>

\* cat.rs:79,86  Ok(0): break, Ok(())
ExReadEof ==
    /\ pc = "ex_read"
    /\ ~ExBadFd
    /\ ExReadLen = 0
    /\ last_read' = "eof"
    /\ result' = "Ok"
    /\ pc' = "ex_ret"
    /\ UNCHANGED <<envVars, cliVars, ioVars, buffer, bufsize, bufch, writes, flushes, exit>>

\* cat.rs:82,86  Err(_): break, Ok(()); the k bytes read before the error stay in the
\* buffer and are never written
ExReadErr ==
    /\ pc = "ex_read"
    /\ ExBadFd \/ faults < MaxFaults
    /\ faults' = IF ExBadFd THEN faults ELSE faults + 1
    /\ \E k \in {0, ExReadLen \div 2} :
          /\ buffer' = IF k > 0 THEN Append(buffer, Ext(idx, f.pos, k)) ELSE buffer
          /\ f' = [f EXCEPT !.pos = @ + k]
    /\ last_read' = "err"
    /\ result' = "Ok"
    /\ pc' = "ex_ret"
    /\ UNCHANGED <<envVars, cliVars, pending, sink, sinkErr, fd0, stderr, bufsize, bufch,
                   writes, flushes, exit>>

\* cat.rs:81,84  stdout.write_all(&buffer)?; buffer.clear(); stdout.flush()?
ExWrite ==
    /\ pc = "ex_write"
    /\ ~sinkErr
    /\ sink' = Emit(sink, pending, buffer, SumLen(buffer))
    /\ pending' = <<>>
    /\ buffer' = Cleared(buffer)
    /\ writes' = writes + 1
    /\ flushes' = flushes + 1
    /\ pc' = "ex_read"
    /\ UNCHANGED <<envVars, cliVars, sinkErr, fd0, stderr, f, faults, bufsize, bufch,
                   last_read, result, exit>>

\* cat.rs:81,84  write_all or flush fails after k bytes: `?` returns the error
ExWriteErr ==
    /\ pc = "ex_write"
    /\ faults < MaxFaults
    /\ \E k \in {0, SumLen(buffer) \div 2} : sink' = Emit(sink, pending, buffer, k)
    /\ pending' = <<>>
    /\ buffer' = <<>>
    /\ sinkErr' = TRUE
    /\ faults' = faults + 1
    /\ writes' = writes + 1
    /\ result' = "write"
    /\ pc' = "ex_ret"
    /\ UNCHANGED <<envVars, cliVars, fd0, stderr, f, bufsize, bufch, flushes, last_read,
                   exit>>

\* cat.rs:89-100  main returns what simple_cat returned: status 0 for Ok, 1 for Err
ExExit ==
    /\ pc = "ex_ret"
    /\ exit' = IF result = "Ok" THEN 0 ELSE 1
    /\ pc' = "ex_done"
    /\ UNCHANGED <<envVars, cliVars, ioVars, catVars, result>>

NextCat ==
    \/ ExMain
    \/ ExReadData
    \/ ExReadEof
    \/ ExReadErr
    \/ ExWrite
    \/ ExWriteErr
    \/ ExExit

SpecCat == InitCat /\ [][NextCat]_vars

TypeOK ==
    /\ pc \in {"main", "loop", "iocopy", "cat", "read", "write", "ret", "done", "panicked",
              "ex_main", "ex_read", "ex_write", "ex_ret", "ex_done"}
    /\ last_read \in {"none", "data", "eof", "err"}
    /\ writes \in Nat
    /\ flushes \in Nat
    /\ ok \in BOOLEAN
    /\ exit \in {-1, 0, 1, 101}
    /\ result \in {"none", "Ok", "probe", "open", "read", "write"}
    /\ fd0 \in {"open", "closed"}
    /\ faults \in 0..MaxFaults

(* ------------------------------------------------------------------ *)
(* Properties                                                          *)
(* ------------------------------------------------------------------ *)
\* the extents of s are in token order and, within a token, in offset order without overlap
InOrder(s) ==
    \A p, q \in 1..Len(s) :
        p < q => \/ s[p].t < s[q].t
                 \/ s[p].t = s[q].t /\ s[p].o + s[p].n <= s[q].o

\* a diagnostic with this message was reported
Reported(msg) == \E d \in 1..Len(stderr) : stderr[d].msg = msg

\* the token at position j names a path that cannot be opened
CannotOpen(j) == ~IsStdinToken(args[j]) /\ OpenResult(args[j]) # "Ok"

\* C1: the bytes written to fd 1, followed by the bytes the BufWriter still holds, are
\* grouped by source in token-list order and, within a source, are in the order they
\* were read; and no byte is held in the BufWriter when the copy of a source starts.
C1_OrderedBySource ==
    /\ InOrder(sink \o pending)
    /\ \A e \in 1..Len(sink) : sink[e].t \in 1..Len(args) /\ sink[e].t <= idx
    /\ pc \in {"iocopy", "cat"} => pending = <<>>

\* C1 witness: `rat a p > new`: "a" went through io::copy, "p" through simple_cat, and
\* the file holds all of "a" followed by all of "p"
C1_Witness ==
    /\ pc = "done"
    /\ argv = <<"a", "p">>
    /\ stdoutKind = "file" /\ stdoutSize0 = 0
    /\ faults = 0
    /\ sink = <<Ext(1, 0, SizeA), Ext(2, 0, SizeP)>>

\* C2: when a source was refused as being the output file, OkFlag is false and the
\* exit status is not 0.
C2_RefusalFailsRun ==
    (pc = "done" /\ Reported("input file is output file")) => (~ok /\ exit # 0)

\* the token at position j names the very file fd 1 writes to
IsSinkFile(j) ==
    /\ stdoutKind = "file"
    /\ \/ FileOf(args[j]) = "out"
       \/ IsStdinToken(args[j]) /\ stdinKind = "out"

\* the step reports the current token as being the output file
RefusalStep ==
    /\ Len(stderr') = Len(stderr) + 1
    /\ stderr'[Len(stderr')].msg = "input file is output file"

\* an iteration refuses exactly when source and sink are regular, the same (device,
\* inode), and the source is not empty; a refusal writes nothing and goes to the next token
C3_GuardStep ==
    InLoop =>
        LET same == /\ CurStat.kind = "file"
                    /\ stdout_stat.kind = "file"
                    /\ CurStat.dev = stdout_stat.dev
                    /\ CurStat.ino = stdout_stat.ino
                    /\ CurStat.size > 0
        IN  /\ same <=> RefusalStep
            /\ same => /\ sink' = sink
                       /\ pending' = pending
                       /\ f' = NoFile
                       /\ pc' = "loop"
                       /\ idx' = idx + 1

\* while the current source is the output file, nothing clears OkFlag
C3_SelfKeepsOk ==
    (pc \in {"loop", "iocopy", "cat", "read", "write"} /\ idx \in 1..Len(args) /\ IsSinkFile(idx))
        => ok' = ok

\* no byte written to fd 1 or held for it comes from a source that is the output file
C3_NoSelfBytes == \A e \in 1..Len(sink \o pending) : ~IsSinkFile((sink \o pending)[e].t)

\* C3: the driver refuses a source iff source and sink are both regular files with equal
\* device and inode and the source size is greater than zero; a refusal writes no byte
\* and the driver goes on to the next token; an empty source identical to the sink is
\* allowed, contributes no byte and does not clear OkFlag.
C3_SameFileGuard ==
    /\ [][C3_GuardStep]_vars
    /\ [][C3_SelfKeepsOk]_vars
    /\ []C3_NoSelfBytes

\* C3 witness: `rat out a >> out` with "out" not empty: "out" was refused, and the
\* driver went on and copied "a"
C3_Witness ==
    /\ pc = "done"
    /\ argv = <<"out", "a">>
    /\ stdoutKind = "file" /\ stdoutSize0 = SizeOut
    /\ stderr = <<[name |-> "out", msg |-> "input file is output file"]>>
    /\ sink = <<Ext(2, 0, SizeA)>>
    /\ result = "Ok"

\* without strict, the iteration of a token that cannot be opened reports it, clears
\* OkFlag, writes nothing and leaves the driver at the next token
C4_OpenFailureStep ==
    (InLoop /\ ~strict /\ CannotOpen(idx)) =>
        /\ Len(stderr') = Len(stderr) + 1
        /\ stderr'[Len(stderr')].name = args[idx]
        /\ ok' = FALSE
        /\ sink' = sink
        /\ pending' = pending
        /\ result' = "none"
        /\ pc' = "loop"
        /\ idx' = idx + 1

\* without strict, once a token that cannot be opened was passed, the exit status is 1,
\* and no byte of such a token is on fd 1
C4_OpenFailureExit ==
    /\ (pc = "done" /\ ~strict /\ \E j \in 1..Len(args) : j < idx /\ CannotOpen(j)) => exit = 1
    /\ \A e \in 1..Len(sink) : ~CannotOpen(sink[e].t)

\* C4: without --strict, a token whose path cannot be opened produces a diagnostic, sets
\* OkFlag to false, writes no bytes, and does not stop the driver, which goes on with the
\* next token; the final exit status is 1.
C4_OpenFailureContinues ==
    /\ [][C4_OpenFailureStep]_vars
    /\ []C4_OpenFailureExit

\* C4 witness: `rat nope a | consumer`: the diagnostic for "nope", all of "a" on the
\* pipe, exit status 1
C4_Witness ==
    /\ pc = "done"
    /\ ~strict
    /\ argv = <<"nope", "a">>
    /\ stdoutKind = "fifo"
    /\ Len(stderr) = 1 /\ stderr[1].name = "nope"
    /\ SumLen(sink) = SizeA
    /\ result = "Ok"
    /\ exit = 1

\* C5: when a copy ended with a read error, the token was reported, OkFlag is false, the
\* driver went on through the remaining tokens, and the exit status is 1.
C5_ReadErrorContinues ==
    (pc = "done" /\ result = "read") =>
        /\ Len(stderr) > 0
        /\ ~ok
        /\ idx > Len(args)
        /\ exit = 1

\* C6: when a write or a flush to the sink failed during a copy, the exit status is not 0.
C6_WriteErrorFatal == (pc = "done" /\ result = "write") => exit # 0

\* C7: when the probe of the sink failed at startup, no source was processed, no byte
\* was written and the exit status is not 0.
C7_ProbeFailureFatal ==
    (pc = "done" /\ result = "probe") => (idx = 0 /\ sink = <<>> /\ exit # 0)

MessageOf(err) ==
    IF err = "PermissionDenied" THEN "Permission denied" ELSE "No such file or directory"

\* C9: every token that failed to open was reported as "<token>: No such file or
\* directory" when the path was not found and as "<token>: Permission denied" when
\* permission was refused, and OkFlag is false.
C9_DiagnosticByKind ==
    \A j \in 1..Len(args) :
        (~strict /\ j < idx /\ CannotOpen(j)) =>
            /\ \E d \in 1..Len(stderr) :
                  stderr[d] = [name |-> args[j], msg |-> MessageOf(OpenResult(args[j]))]
            /\ ~ok

\* the inherited input delivers no byte
StdinEmpty ==
    \/ stdinKind = "empty"
    \/ stdinKind = "out" /\ stdoutKind = "file" /\ stdoutSize0 = 0

\* C10: with no tokens the driver iterates over exactly one source, the inherited input,
\* the handle "-", "/dev/stdin" and "/proc/self/fd/0" resolve to; when the inherited
\* input is empty the output is empty and the exit status is 0.
C10_NoTokens ==
    argv = <<>> =>
        /\ (pc # "main" /\ result # "probe") =>
              /\ Len(args) = 1
              /\ \A t \in {"-", "/dev/stdin", "/proc/self/fd/0"} : FileOf(t) = FileOf(args[1])
              /\ idx \in 1..2
        /\ f # NoFile => (f.is_stdin /\ f.path = FileOf("-"))
        /\ \A e \in 1..Len(sink \o pending) : (sink \o pending)[e].t = 1
        /\ (pc = "done" /\ result = "Ok") => idx = 2
        /\ (pc = "done" /\ StdinEmpty) => (sink = <<>> /\ exit = 0)

\* C10 witness: `rat < /dev/null`-like run: no tokens, empty inherited input, the one
\* source was opened and finished, nothing written, exit status 0
C10_Witness ==
    /\ pc = "done"
    /\ argv = <<>>
    /\ stdinKind = "empty"
    /\ result = "Ok"
    /\ idx = 2
    /\ fd0 = "closed"
    /\ sink = <<>>
    /\ exit = 0

\* the copy of the current source runs, or the process panicked before it
C11_Sizes ==
    /\ pc \in {"read", "write"} =>
          /\ bufsize > 0
          /\ bufsize % page_size = 0
          /\ bufsize = Min(ibufsize, obufsize)
    /\ pc = "panicked" =>
          /\ Min(ibufsize, obufsize) % page_size # 0
          /\ exit = 101

\* simple_cat is entered exactly when min(B_in, B_out) is a multiple of the page size
C11_Step ==
    pc = "cat" =>
        /\ pc' = "read" <=> Min(ibufsize, obufsize) % page_size = 0
        /\ pc' = "panicked" <=> Min(ibufsize, obufsize) % page_size # 0

C12_Monotone == ok' => ok

\* when main has returned, the status is 0 for a true OkFlag and 1 for a false one
C12_ExitMaps ==
    pc = "done" =>
        /\ ok => exit = 0
        /\ ~ok => exit = 1

\* C12: OkFlag is true at startup, is only ever driven toward false (once false it never
\* becomes true again), and the exit status is 0 exactly when its final value is true and
\* 1 otherwise.
C12_OkFlag ==
    /\ [](pc = "main" => ok)
    /\ [][C12_Monotone]_vars
    /\ []C12_ExitMaps

\* C12 witness: `rat noperm nope`: OkFlag was cleared at the first token, cleared again at
\* the second, and the status is 1
C12_Witness ==
    /\ pc = "done"
    /\ ~strict
    /\ argv = <<"noperm", "nope">>
    /\ Len(stderr) = 2
    /\ ~ok
    /\ result = "Ok"
    /\ exit = 1

\* the bytes of s that come from the source of token t
RECURSIVE BytesOf(_, _)
BytesOf(s, t) ==
    IF s = <<>> THEN 0
    ELSE (IF Head(s).t = t THEN Head(s).n ELSE 0) + BytesOf(Tail(s), t)

\* C13: while the copy loop of simple_cat runs without having returned an error, every
\* byte the reads of the current source returned is on fd 1 or held for it, once: short
\* writes are completed before the buffer is reset, nothing is dropped or duplicated.
C13_NoBytesDropped == pc = "read" => BytesOf(sink \o pending, idx) = f.pos

\* the size the source side calls for, from the kind of this source alone
SourceSize(st) == IF st.ok /\ st.kind = "fifo" THEN PipeSize ELSE IO_BUFSIZE

\* C14: the buffer size simple_cat gets for a token is min(B_in, B_out) with B_in the pipe
\* size if that token's own source is a FIFO and 128 KiB otherwise, whatever the sources
\* processed before it were.
C14_OwnSourceAlone ==
    pc \in {"read", "write"} => bufsize = Min(SourceSize(CurStat), obufsize)

\* io::copy is attempted only for a regular source and a regular sink that was empty
\* when the process started
C15_Attempted ==
    pc = "iocopy" =>
        /\ CurStat.kind = "file"
        /\ stdout_stat.kind = "file"
        /\ stdout_stat.size = 0

\* whatever the error of io::copy, nothing is returned or reported: simple_cat goes on
\* with the same handles
C15_ErrStep ==
    (pc = "iocopy" /\ pc' # "loop") =>
        /\ pc' = "cat"
        /\ result' = "none"
        /\ f'.path = f.path
        /\ f'.is_stdin = f.is_stdin
        /\ idx' = idx
        /\ ok' = ok
        /\ stderr' = stderr

C15_PropagateStep ==
    (pc = "iocopy" /\ faults' > faults) =>
        /\ pc' = "ret"
        /\ result' \in {"read", "write"}

C16_Counts == (pc = "read" /\ bufch = 0) => flushes = writes

\* in stream copy every write of the loop is followed by a call of flush, and the end
\* of the loop by one more
C16_Step ==
    bufch = 0 =>
        /\ (pc = "write" /\ pc' = "read") => (writes' = writes + 1 /\ flushes' = flushes + 1)
        /\ (pc = "read" /\ pc' = "loop") => flushes' = writes + 1

\* C16 (amended): in stream copy the sink is flushed after every write of the loop and
\* once more after the loop has terminated: an invocation that made n writes made n + 1
\* calls of flush.
C16_FlushPerWrite ==
    /\ []C16_Counts
    /\ [][C16_Step]_vars

\* C16 witness: `rat a | consumer`: 70000 bytes in chunks of 65536: two writes, three
\* calls of flush
C16_Witness ==
    /\ pc = "done"
    /\ argv = <<"a">>
    /\ stdoutKind = "fifo"
    /\ bufch = 0
    /\ last_read = "eof"
    /\ writes = 2
    /\ flushes = 3

\* C16 (as claimed): in stream copy no flush happens between the writes of the loop, and
\* exactly one after it.
C16_SingleFlush ==
    bufch = 0 =>
        /\ pc \in {"read", "write"} => flushes = 0
        /\ (last_read = "eof" /\ pc \in {"loop", "ret", "done"}) => flushes = 1

\* C17: in every copy loop (simple_cat of src/bin/rat.rs, simple_cat of examples/cat.rs)
\* a read error ends the loop with an error result, never with a success result.
C17_ReadErrorSurfaced ==
    (last_read = "err" /\ pc \in {"ret", "done", "ex_ret", "ex_done"}) =>
        result \notin {"Ok", "none"}

\* C18: once the driver has finished with a token that denotes the inherited input,
\* descriptor 0 is still open.
C18_StdinStaysOpen ==
    (\E j \in 1..Len(args) : j < idx /\ IsStdinToken(args[j])) => fd0 = "open"

\* the offsets of newline bytes within an extent
NewlinesIn(e) == {q \in NewlineOffsets : e.o <= q /\ q < e.o + e.n}

\* an extent with at most one newline, which is its last byte
EndsAtNewline(e) == \A q \in NewlinesIn(e) : q = e.o + e.n - 1

\* with a terminal as sink: the buffer handed to write is one chunk of at most bufsize
\* bytes that stops at its first newline; what was written is a chunk of that kind; and
\* when a read begins nothing is held back and every write was followed by a flush
C19_Chunks ==
    IsattyStdout =>
        /\ pc \in {"read", "write"} => bufch = NEWLINE_CH
        /\ pc = "write" =>
              /\ Len(buffer) = 1
              /\ buffer[1].n <= bufsize
              /\ EndsAtNewline(buffer[1])
        /\ pc = "read" => (buffer = <<>> /\ pending = <<>> /\ flushes = writes)
        /\ \A e \in 1..Len(sink) : EndsAtNewline(sink[e])

\* with a terminal as sink, the write puts the chunk on fd 1 and flushes before the next read
C19_WriteStep ==
    (IsattyStdout /\ pc = "write" /\ pc' = "read") =>
        /\ Len(sink') = Len(sink) + 1
        /\ sink'[Len(sink')].o = buffer[1].o
        /\ sink'[Len(sink')].n <= buffer[1].n
        /\ pending' = <<>>
        /\ flushes' = flushes + 1

\* C19: when the sink is a terminal simple_cat runs as line copy: each read returns at
\* most B bytes and stops at the first newline byte, so every chunk written is at most B
\* bytes long and contains at most one newline, as its last byte, and the sink is flushed
\* after each write before the next read begins.
C19_LineCopy ==
    /\ []C19_Chunks
    /\ [][C19_WriteStep]_vars

\* C19 witness: `rat a` on a terminal, newlines at offsets 1 and 4: the chunks are bytes
\* 0..1, bytes 2..4 and the rest
C19_Witness ==
    /\ pc = "done"
    /\ argv = <<"a">>
    /\ stdoutKind = "tty"
    /\ faults = 0
    /\ sink = <<Ext(1, 0, 2), Ext(1, 2, 3), Ext(1, 5, SizeA - 5)>>
    /\ flushes = 4

\* the token is a path that names a regular file
NamesRegular(tok) == ~IsStdinToken(tok) /\ Stat(tok).ok /\ Stat(tok).kind = "file"

\* the sink is a regular file and every token names a regular file
RegularRun ==
    /\ stdoutKind = "file"
    /\ argv # <<>>
    /\ \A j \in 1..Len(argv) : NamesRegular(argv[j])

\* larger than twice the bytes any source holds
RankBase == 4 * (SizeA + SizeOut + SizeP + SizeStdin + IO_BUFSIZE)

\* a natural number that every step of the driver makes smaller: tokens left, then the
\* position within the iteration, then the bytes the open source still holds
Rank ==
    CASE pc = "main"   -> RankBase * (Len(ArgsOf(argv)) + 2)
      [] pc = "loop"   -> RankBase * (Len(args) + 1 - idx) + RankBase - 1
      [] pc = "iocopy" -> RankBase * (Len(args) + 1 - idx) + RankBase - 2
      [] pc = "cat"    -> RankBase * (Len(args) + 1 - idx) + RankBase - 3
      [] pc = "read"   -> RankBase * (Len(args) + 1 - idx) + 2 * Remaining + 1
      [] pc = "write"  -> RankBase * (Len(args) + 1 - idx) + 2 * Remaining + 2
      [] pc = "ret"    -> 1
      [] OTHER         -> 0

\* the run is not over before main has returned, and the rank is a natural number
C20_Progress ==
    RegularRun =>
        /\ Rank \in Nat
        /\ pc # "done" => ENABLED Next

\* every step makes the rank smaller
C20_RankStep == RegularRun => Rank' < Rank

\* a source that is the sink file is open only while that file is empty, and no byte
\* is read from it
C20_SelfOnlyWhileEmpty ==
    (RegularRun /\ f # NoFile /\ IsSinkFile(idx)) =>
        /\ stdoutSize0 + SumLen(sink \o pending) = 0
        /\ f.pos = 0
        /\ Remaining = 0

\* once bytes were put into the sink, a token that names the sink file is refused
C20_RefusedOnceWritten ==
    (RegularRun /\ InLoop /\ IsSinkFile(idx) /\ SumLen(sink) > 0) => RefusalStep

\* C20: when the sink is a regular file and every token names a regular file, the driver
\* always terminates; a source that is the sink file is copied only while it is still
\* empty (zero bytes are read from it) and is refused once an earlier source has put
\* bytes into the sink, so no copy reads bytes that this run wrote.
C20_TerminatesNoSelfRead ==
    /\ []C20_Progress
    /\ [][C20_RankStep]_vars
    /\ []C20_SelfOnlyWhileEmpty
    /\ [][C20_RefusedOnceWritten]_vars

\* C20 witness: `rat a out > out`: "a" was copied into the empty sink file, then "out",
\* no longer empty, was refused, and main returned
C20_Witness ==
    /\ pc = "done"
    /\ argv = <<"a", "out">>
    /\ stdoutKind = "file" /\ stdoutSize0 = 0
    /\ sink = <<Ext(1, 0, SizeA)>>
    /\ stderr = <<[name |-> "out", msg |-> "input file is output file"]>>

====
